---- MODULE Spec2Model ----
(***************************************************************************)
(* Model of the sub-sorting-barrier SSSP engine:                           *)
(*   include/block_data_structure.hpp  (BlockDataStructure)                *)
(*   include/new_sssp.hpp              (NewSSSP: solve, BMSSP, baseCase,   *)
(*                                      findPivots)                        *)
(* Distances are doubles in the source; the model uses naturals with INF   *)
(* as the saturating +infinity.  std::sort leaves the order of elements of *)
(* equal value unspecified, so every place that sorts is a choice over all *)
(* value-sorted orders.  A block's std::list<KeyValue> is a set of         *)
(* <<key, value>> pairs: the source reads a block's elements only through  *)
(* std::sort, a search by key, or an emptiness test.                       *)
(***************************************************************************)
EXTENDS Integers, Sequences, FiniteSets, TLC

VARIABLES
    \* ---- a standalone workspace driven by arbitrary operations ----
    bds,        \* the BlockDataStructure
    bdsPrev,    \* the workspace before the last operation
    lastOp,     \* the last operation, its arguments and what it returned
    nOps,       \* operations performed
    wsFault,    \* "none", or how the last operation failed to return
    inserted,   \* the keys handed to insert or batchPrepend so far
    pulled,     \* the keys returned by pull so far
    \* ---- one solve of NewSSSP ----
    adj,        \* SimpleGraph::adj: vertex -> sequence of <<target, weight>>
    source,     \* the argument of solve
    d_hat,      \* distance estimates
    pred,       \* predecessors
    complete,   \* complete flags
    writes,     \* what the writes to d_hat did so far: raised or lowered a value
    stack,      \* activations of BMSSP / baseCase, innermost last
    ret,        \* what the activation that returned last returned
    status      \* "ready", "running", "done", or how the solve ended

bdsVars == <<bds, bdsPrev, lastOp, nOps, wsFault, inserted, pulled>>
ssspVars == <<adj, source, d_hat, pred, complete, writes, stack, ret, status>>
vars == <<bdsVars, ssspVars>>

(***************************************************************************)
(* Bounds of the model                                                     *)
(***************************************************************************)
\* largest block capacity M handed to initialize in the workspace runs
MaxM == 2
\* number of operations of a workspace run
MaxOps == 4
\* largest batch handed to batchPrepend in the workspace runs
MaxBatch == 3
\* graphs of the solve runs have 1 .. MaxN vertices
MaxN == 5
\* ... at most MaxArcs arcs
MaxArcs == 2
\* ... and weights 0 .. MaxW
MaxW == 1
\* a solve is followed while the base-case heap holds at most MaxHeap entries
MaxHeap == 6
\* ... and a workspace at most MaxD0 batch-prepended blocks
MaxD0 == 6

\* graph_types.hpp: constexpr double INF = numeric_limits<double>::infinity()
INF == 1000
\* the "none" predecessor written by pred.assign(n, -1)
NONE == -1

(***************************************************************************)
(* double arithmetic on [0, +inf]                                          *)
(***************************************************************************)
Add(a, b) == IF a >= INF \/ b >= INF THEN INF ELSE a + b

MinOf(S) == CHOOSE x \in S : \A y \in S : x <= y
MaxOf(S) == CHOOSE x \in S : \A y \in S : x >= y
MinNat(a, b) == IF a <= b THEN a ELSE b
MaxNat(a, b) == IF a >= b THEN a ELSE b

Key(e) == e[1]
Val(e) == e[2]
KeysOf(S) == {Key(e) : e \in S}

(***************************************************************************)
(* std::sort(first, last, by value): every order of S that is              *)
(* non-decreasing in value                                                 *)
(***************************************************************************)
RECURSIVE SortedSeqs(_)
SortedSeqs(S) ==
    IF S = {} THEN {<<>>}
    ELSE LET m == MinOf({Val(e) : e \in S})
         IN UNION {{<<e>> \o s : s \in SortedSeqs(S \ {e})} :
                     e \in {x \in S : Val(x) = m}}

\* the elements at positions lo..hi (1-based, inclusive) of a sequence
Slice(s, lo, hi) == {s[i] : i \in lo..hi}

(***************************************************************************)
(* BlockDataStructure                                                      *)
(***************************************************************************)
Block(elems, ub) == [elements |-> elems, upper_bound |-> ub]

\* initialize recording a bound one above the bound it is given
initializeAboveBound(m, b) ==
    [M |-> MaxNat(1, m), B |-> b + 1, D0 |-> <<>>, D1 |-> <<Block({}, b + 1)>>,
     key_values |-> <<>>]

\* initialize(m, b, max_n): M = max(1, m), one empty D1 block of bound B
initialize(m, b) ==
    [M |-> MaxNat(1, m), B |-> b, D0 |-> <<>>, D1 |-> <<Block({}, b)>>,
     key_values |-> <<>>]

\* empty() looking at the D1 blocks only
emptyOfD1(ws) ==
    \A i \in 1..Len(ws.D1) : ws.D1[i].elements = {}

empty(ws) ==
    /\ \A i \in 1..Len(ws.D0) : ws.D0[i].elements = {}
    /\ \A i \in 1..Len(ws.D1) : ws.D1[i].elements = {}

size(ws) == Cardinality(DOMAIN ws.key_values)

getValue(ws, key) ==
    IF key \in DOMAIN ws.key_values THEN ws.key_values[key] ELSE INF

\* key_values.erase(kv_it) left out: the index keeps the key
MapEraseNothing(f, key) == f

\* std::map erase / operator[]=
MapErase(f, key) == [x \in (DOMAIN f) \ {key} |-> f[x]]
MapPutNothing(f, key, val) == f
MapPut(f, key, val) == [x \in (DOMAIN f) \cup {key} |-> IF x = key THEN val ELSE f[x]]

\* index of the first block of a block list that holds the key, 0 if none
FirstBlockWith(blocks, key) ==
    LET hit == {i \in 1..Len(blocks) : key \in KeysOf(blocks[i].elements)}
    IN IF hit = {} THEN 0 ELSE MinOf(hit)

EraseFrom(blocks, i, key) ==
    LET e == CHOOSE x \in blocks[i].elements : Key(x) = key
    IN [blocks EXCEPT ![i].elements = @ \ {e}]

\* removeKey without the two search loops: only the index forgets the key
removeKeyIndexOnly(ws, key) ==
    IF key \notin DOMAIN ws.key_values THEN ws
    ELSE [ws EXCEPT !.key_values = MapErase(@, key)]

removeKey(ws, key) ==
    IF key \notin DOMAIN ws.key_values THEN ws
    ELSE LET kv == MapErase(ws.key_values, key)
             i0 == FirstBlockWith(ws.D0, key)
             i1 == FirstBlockWith(ws.D1, key)
         IN IF i0 # 0
              THEN [ws EXCEPT !.key_values = kv, !.D0 = EraseFrom(@, i0, key)]
            ELSE IF i1 # 0
              THEN [ws EXCEPT !.key_values = kv, !.D1 = EraseFrom(@, i1, key)]
            ELSE [ws EXCEPT !.key_values = kv]

\* first D1 block with upper_bound >= value, else the last block
findBlockForValue(ws, value) ==
    LET ok == {i \in 1..Len(ws.D1) : ws.D1[i].upper_bound >= value}
    IN IF ok = {} THEN Len(ws.D1) ELSE MinOf(ok)

\* the block lists that replacing block i by <<b1, b2>> gives
ReplaceByTwo(blocks, i, b1, b2) ==
    SubSeq(blocks, 1, i - 1) \o <<b1, b2>> \o SubSeq(blocks, i + 1, Len(blocks))

\* splitBlock leaving the upper half of the elements out of the second block
splitBlockLosingHalf(ws, i) ==
    LET blk == ws.D1[i]
        cnt == Cardinality(blk.elements)
        mid == cnt \div 2
    IN IF cnt <= ws.M THEN {ws}
       ELSE {[ws EXCEPT !.D1 = ReplaceByTwo(@, i,
                  Block(Slice(s, 1, mid), Val(s[mid])),
                  Block({}, blk.upper_bound))] :
               s \in SortedSeqs(blk.elements)}

\* splitBlock: the set of workspaces the split of D1 block i can give
splitBlock(ws, i) ==
    LET blk == ws.D1[i]
        n   == Cardinality(blk.elements)
        mid == n \div 2
    IN IF n <= ws.M THEN {ws}
       ELSE {[ws EXCEPT !.D1 = ReplaceByTwo(@, i,
                  Block(Slice(s, 1, mid), Val(s[mid])),
                  Block(Slice(s, mid + 1, n), blk.upper_bound))] :
               s \in SortedSeqs(blk.elements)}

\* insert: the set of workspaces insert(key, value) can give
insert(ws, key, value) ==
    IF key \in DOMAIN ws.key_values /\ ~(value < ws.key_values[key])
    THEN {ws}
    ELSE LET w1 == removeKey(ws, key)
             w2 == [w1 EXCEPT !.key_values = MapPut(@, key, value)]
             i  == findBlockForValue(w2, value)
             w3 == [w2 EXCEPT !.D1[i].elements = @ \cup {<<key, value>>}]
         IN IF Cardinality(w3.D1[i].elements) > w3.M
              THEN splitBlock(w3, i)
              ELSE {w3}

\* unique_items with "value > it->second": the largest value given per key
UniqueItemsMax(items) ==
    {<<key, MaxOf({Val(e) : e \in {x \in items : Key(x) = key}})>> :
       key \in KeysOf(items)}

\* the minimum value given for each key of a batch ("unique_items")
UniqueItems(items) ==
    {<<key, MinOf({Val(e) : e \in {x \in items : Key(x) = key}})>> :
       key \in KeysOf(items)}

\* the survivors of a batch against the key index ("to_add")
ToAdd(ws, items) ==
    {e \in UniqueItems(items) :
        \/ Key(e) \notin DOMAIN ws.key_values
        \/ Val(e) < ws.key_values[Key(e)]}

\* the key index and blocks after the filter loop of batchPrepend: each
\* survivor's prior occurrence removed, its new value recorded
\* the filter loop without "key_values[key] = value" (lines 122 and 126)
RECURSIVE AfterFilterNoIndex(_, _)
AfterFilterNoIndex(ws, todo) ==
    IF todo = {} THEN ws
    ELSE LET e == CHOOSE x \in todo : \A y \in todo : Key(x) <= Key(y)
         IN AfterFilterNoIndex(removeKey(ws, Key(e)), todo \ {e})

RECURSIVE AfterFilter(_, _)
AfterFilter(ws, todo) ==
    IF todo = {} THEN ws
    ELSE LET e  == CHOOSE x \in todo : \A y \in todo : Key(x) <= Key(y)
             w1 == removeKey(ws, Key(e))
         IN AfterFilter([w1 EXCEPT !.key_values = MapPut(@, Key(e), Val(e))],
                        todo \ {e})

\* the whole of a sorted to_add kept in one block
ChunksInOneBlock(s, per_block) ==
    <<Block(Slice(s, 1, Len(s)), Val(s[Len(s)]))>>

\* the blocks of a sorted to_add cut every per_block elements
Chunks(s, per_block) ==
    LET L  == Len(s)
        nb == (L + per_block - 1) \div per_block
    IN [b \in 1..nb |->
          LET lo == (b - 1) * per_block + 1
              hi == MinNat(b * per_block, L)
          IN Block(Slice(s, lo, hi), Val(s[hi]))]

\* batchPrepend: the set of outcomes [ws, fault].  With M = 1 and more than
\* M survivors the source divides by M / 2 = 0: the integer division traps
\* (fault "sigfpe") or yields a quotient with which the block loop never
\* advances (fault "hang"); in both the call does not return.
batchPrepend(ws, items) ==
    IF items = {} THEN {[ws |-> ws, fault |-> "none"]}
    ELSE LET to_add == ToAdd(ws, items)
             w1     == AfterFilter(ws, to_add)
             L      == Cardinality(to_add)
         IN IF to_add = {} THEN {[ws |-> ws, fault |-> "none"]}
            ELSE IF L <= w1.M
              THEN {[ws |-> [w1 EXCEPT !.D0 =
                               <<Block(to_add, MaxOf({Val(e) : e \in to_add}))>> \o @],
                     fault |-> "none"]}
            ELSE IF w1.M \div 2 = 0
              THEN {[ws |-> w1, fault |-> f] : f \in {"sigfpe", "hang"}}
            ELSE LET half       == w1.M \div 2
                     num_blocks == (L + half - 1) \div half
                     per_block  == (L + num_blocks - 1) \div num_blocks
                 IN {[ws |-> [w1 EXCEPT !.D0 = Chunks(s, per_block) \o @],
                      fault |-> "none"] : s \in SortedSeqs(to_add)}

\* Collect with "if (collected >= 1) break": the first non-empty block only
CollectFirstBlock(blocks, M) ==
    LET F[i \in 0..Len(blocks)] ==
          IF i = 0 THEN {}
          ELSE IF Cardinality(F[i - 1]) >= 1 THEN F[i - 1]
          ELSE F[i - 1] \cup blocks[i].elements
    IN F[Len(blocks)]

\* the elements pull gathers from a block list: whole blocks from the front
\* until at least M elements were seen
Collect(blocks, M) ==
    LET F[i \in 0..Len(blocks)] ==
          IF i = 0 THEN {}
          ELSE IF Cardinality(F[i - 1]) >= M THEN F[i - 1]
          ELSE F[i - 1] \cup blocks[i].elements
    IN F[Len(blocks)]

RECURSIVE RemoveKeys(_, _)
RemoveKeys(ws, keys) ==
    IF keys = {} THEN ws
    ELSE LET key == CHOOSE x \in keys : TRUE
         IN RemoveKeys(removeKey(ws, key), keys \ {key})

AllElements(ws) ==
    UNION ({ws.D0[i].elements : i \in 1..Len(ws.D0)}
           \cup {ws.D1[i].elements : i \in 1..Len(ws.D1)})

\* the separator being the value of the last key taken
SepBoundOfTaken(ws, s, take) == Val(s[take])

\* the separator pull reports once the taken keys are removed
SepBound(ws, s, take) ==
    IF Len(s) > take THEN Val(s[take + 1])
    ELSE IF empty(ws) THEN ws.B
    ELSE MinOf({ws.B} \cup {Val(e) : e \in AllElements(ws)})

\* pull: the set of outcomes [ws, result, sep]
pull(ws) ==
    LET candidates == Collect(ws.D0, ws.M) \cup Collect(ws.D1, ws.M)
    IN IF candidates = {} THEN {[ws |-> ws, result |-> {}, sep |-> ws.B]}
       ELSE {LET take   == MinNat(ws.M, Len(s))
                 result == KeysOf(Slice(s, 1, take))
                 w1     == RemoveKeys(ws, result)
             IN [ws |-> w1, result |-> result, sep |-> SepBound(w1, s, take)] :
               s \in SortedSeqs(candidates)}

(***************************************************************************)
(* NewSSSP: parameters and shared arrays                                   *)
(***************************************************************************)
\* the vertices 0 .. n-1 of the graph
n == Cardinality(DOMAIN adj)
V == DOMAIN adj

\* k = max(2, floor(log2(n)^{1/3})): 2 for every 2 <= n < 2^27
k == IF n <= 1 THEN 1 ELSE 2
\* t = max(2, floor(log2(n)^{2/3})): 2 for every 2 <= n <= 36
t == IF n <= 1 THEN 1 ELSE 2
\* max_level = max(1, ceil(log2(n) / t)): the least L >= 1 with 2^(t*L) >= n
max_level ==
    IF n <= 1 THEN 1
    ELSE MinOf({lv \in 1..n : 2^(t * lv) >= n})

\* M = max(1, min(2^((level-1)*t), n)) of a BMSSP activation
BlockSizeOf(level) == MaxNat(1, MinNat(2^((level - 1) * t), n))
\* size_limit = max(1, min(k * 2^(level*t), n))
SizeLimitOf(level) == MaxNat(1, MinNat(k * 2^(level * t), n))

\* the shared arrays as one value
Mem == [d_hat |-> d_hat, pred |-> pred, complete |-> complete, writes |-> writes]

\* a set of vertices in the order std::set<int> iterates it
RECURSIVE Ascending(_)
Ascending(S) ==
    IF S = {} THEN <<>>
    ELSE LET a == MinOf(S) IN <<a>> \o Ascending(S \ {a})

\* the arcs <<u, v, w>> that "for u in US: for (v, w) in adj[u]" visits
RECURSIVE ArcList(_)
ArcList(us) ==
    IF us = <<>> THEN <<>>
    ELSE [i \in 1..Len(adj[Head(us)]) |->
            <<Head(us), adj[Head(us)][i][1], adj[Head(us)][i][2]>>]
         \o ArcList(Tail(us))

(***************************************************************************)
(* "d_hat[v] = d_hat[u] + w; pred[v] = u;": the two assignments every      *)
(* relaxation of the source makes once its test has passed                 *)
(***************************************************************************)
\* the assignments with "pred[v] = u" left out
\* no write to d_hat yet
NoWrites == [raised |-> FALSE, lowered |-> FALSE]
\* a write of nd to d_hat[v]: it raises the value, or lowers a finite one
Written(m, v, nd) ==
    [raised  |-> m.writes.raised \/ nd > m.d_hat[v],
     lowered |-> m.writes.lowered \/ (nd < m.d_hat[v] /\ m.d_hat[v] < INF)]

RelaxKeepPred(m, u, v, nd) ==
    [m EXCEPT !.d_hat[v] = nd, !.writes = Written(m, v, nd)]

\* the assignments with "pred[v] = v"
RelaxPredSelf(m, u, v, nd) ==
    [m EXCEPT !.d_hat[v] = nd, !.pred[v] = v, !.writes = Written(m, v, nd)]

Relax(m, u, v, nd) ==
    [m EXCEPT !.d_hat[v] = nd, !.pred[v] = u, !.writes = Written(m, v, nd)]

(***************************************************************************)
(* solve: initialisation and the relaxation of the source's arcs           *)
(***************************************************************************)
RECURSIVE RelaxSource(_, _)
RelaxSource(m, arcs) ==
    IF arcs = <<>> THEN m
    ELSE LET u  == Head(arcs)[1]
             v  == Head(arcs)[2]
             nd == Add(m.d_hat[u], Head(arcs)[3])
         IN IF nd < m.d_hat[v]
              THEN RelaxSource(Relax(m, u, v, nd), Tail(arcs))
              ELSE RelaxSource(m, Tail(arcs))

\* solve with "d_hat.assign(n, 0)" in place of line 59
solveZeroInit(src) ==
    RelaxSource([d_hat    |-> [v \in V |-> 0],
                 pred     |-> [v \in V |-> NONE],
                 complete |-> [v \in V |-> v = src],
                 writes   |-> NoWrites],
                ArcList(<<src>>))

\* solve without line 64, "d_hat[source] = 0.0"
solveSourceInf(src) ==
    RelaxSource([d_hat    |-> [v \in V |-> INF],
                 pred     |-> [v \in V |-> NONE],
                 complete |-> [v \in V |-> v = src],
                 writes   |-> NoWrites],
                ArcList(<<src>>))

solve(src) ==
    RelaxSource([d_hat    |-> [v \in V |-> IF v = src THEN 0 ELSE INF],
                 pred     |-> [v \in V |-> NONE],
                 complete |-> [v \in V |-> v = src],
                 writes   |-> NoWrites],
                ArcList(<<src>>))

(***************************************************************************)
(* findPivots                                                              *)
(***************************************************************************)
\* one round: relax every arc out of the previous layer, collect Wi
RECURSIVE FPRound(_, _, _, _)
FPRound(m, B, arcs, Wi) ==
    IF arcs = <<>> THEN [m |-> m, Wi |-> Wi]
    ELSE LET u  == Head(arcs)[1]
             v  == Head(arcs)[2]
             nd == Add(m.d_hat[u], Head(arcs)[3])
         IN IF nd <= m.d_hat[v]
              THEN FPRound(Relax(m, u, v, nd), B, Tail(arcs),
                           IF nd < B THEN Wi \cup {v} ELSE Wi)
              ELSE FPRound(m, B, Tail(arcs), Wi)

\* the k rounds with the early exit once |W| > k * |S|
RECURSIVE FPRounds(_, _, _, _, _, _)
FPRounds(m, B, S, W, Wi_prev, i) ==
    IF i >= k THEN [m |-> m, W |-> W, early |-> FALSE]
    ELSE LET r  == FPRound(m, B, ArcList(Ascending(Wi_prev)), {})
             W2 == W \cup r.Wi
         IN IF Cardinality(W2) > k * Cardinality(S)
              THEN [m |-> r.m, W |-> W2, early |-> TRUE]
              ELSE FPRounds(r.m, B, S, W2, r.Wi, i + 1)

\* children[p]: the vertices of W whose predecessor is p, p in W
Children(m, W, p) ==
    {v \in W : m.pred[v] >= 0 /\ m.pred[v] \in W /\ m.pred[v] = p}

\* the vertices computeSize reaches below v in at most d calls
RECURSIVE Below(_, _, _, _)
Below(m, W, vs, d) ==
    IF d = 0 THEN {}
    ELSE LET c == UNION {Children(m, W, v) : v \in vs}
         IN c \cup Below(m, W, c, d - 1)

\* computeSize(root) recurses for ever iff a vertex it reaches is below itself
Overflows(m, W, roots) ==
    \E r \in roots :
       \E v \in {r} \cup Below(m, W, {r}, Cardinality(W)) :
          v \in Below(m, W, {v}, Cardinality(W))

RECURSIVE SumOver(_, _, _, _)
RECURSIVE computeSize(_, _, _)
computeSize(m, W, v) == 1 + SumOver(m, W, Children(m, W, v), 0)
SumOver(m, W, cs, acc) ==
    IF cs = {} THEN acc
    ELSE LET c == MinOf(cs)
         IN SumOver(m, W, cs \ {c}, acc + computeSize(m, W, c))

\* findPivots without lines 330-333: no pivot when no subtree has k vertices
findPivotsNoFallback(m, B, S) ==
    LET r == FPRounds(m, B, S, S, S, 0)
    IN IF r.early THEN [m |-> r.m, P |-> S, W |-> r.W, fault |-> "none"]
       ELSE IF Overflows(r.m, r.W, r.W \cap S)
         THEN [m |-> r.m, P |-> {}, W |-> r.W, fault |-> "stack_overflow"]
       ELSE [m |-> [r.m EXCEPT !.complete =
                       [v \in V |-> IF v \in r.W THEN TRUE ELSE @[v]]],
             P |-> {u \in S : computeSize(r.m, r.W, u) >= k},
             W |-> r.W, fault |-> "none"]

\* findPivots taking every vertex of W for a pivot once the rounds are over
findPivotsAllOfW(m, B, S) ==
    LET r == FPRounds(m, B, S, S, S, 0)
    IN IF r.early THEN [m |-> r.m, P |-> S, W |-> r.W, fault |-> "none"]
       ELSE IF Overflows(r.m, r.W, r.W \cap S)
         THEN [m |-> r.m, P |-> {}, W |-> r.W, fault |-> "stack_overflow"]
       ELSE [m |-> [r.m EXCEPT !.complete =
                       [v \in V |-> IF v \in r.W THEN TRUE ELSE @[v]]],
             P |-> r.W, W |-> r.W, fault |-> "none"]

\* findPivots(B, S): [m, P, W, fault]
findPivots(m, B, S) ==
    LET r == FPRounds(m, B, S, S, S, 0)
    IN IF r.early THEN [m |-> r.m, P |-> S, W |-> r.W, fault |-> "none"]
       ELSE IF Overflows(r.m, r.W, r.W \cap S)
         THEN [m |-> r.m, P |-> {}, W |-> r.W, fault |-> "stack_overflow"]
       ELSE LET big == {u \in S : computeSize(r.m, r.W, u) >= k}
                P   == IF big = {} /\ S # {} THEN {MinOf(S)} ELSE big
            IN [m |-> [r.m EXCEPT !.complete =
                          [v \in V |-> IF v \in r.W THEN TRUE ELSE @[v]]],
                P |-> P, W |-> r.W, fault |-> "none"]

(***************************************************************************)
(* Activations of BMSSP and baseCase                                       *)
(***************************************************************************)
\* BlockDataStructure(): the default-constructed workspace
NoD == [M |-> 1, B |-> INF, D0 |-> <<>>, D1 |-> <<>>, key_values |-> <<>>]

\* the activation record of BMSSP(level, B, S); level 0 is baseCase(B, S)
Frame(level, B, S) ==
    [level |-> level, B |-> B, S |-> S, pc |-> "start",
     P |-> {}, W |-> {}, D |-> NoD, U |-> {}, B_prime_i |-> INF,
     Si |-> {}, Bi |-> INF, U0 |-> {}, H |-> <<>>]

\* what an activation returned, with the call it answers, the pivots P and
\* the reach set W its findPivots gave, and the set U0 its heap loop settled
NoRet == [level |-> -1, B |-> INF, S |-> {}, P |-> {}, W |-> {}, U0 |-> {},
          B_prime |-> INF, U |-> {}]
RetOf(f, B_prime, U) ==
    [level |-> f.level, B |-> f.B, S |-> f.S, P |-> f.P, W |-> f.W,
     U0 |-> f.U0, B_prime |-> B_prime, U |-> U]

top == stack[Len(stack)]
Running == status = "running" /\ stack # <<>>

\* the pivots inserted with the value 0 in place of d_hat[x]
RECURSIVE InsertPivotsAtZero(_, _, _, _)
InsertPivotsAtZero(ds, m, B, xs) ==
    IF xs = <<>> THEN ds
    ELSE LET x == Head(xs)
         IN InsertPivotsAtZero(IF m.d_hat[x] < B
                                 THEN UNION {insert(d, x, 0) : d \in ds}
                                 ELSE ds,
                               m, B, Tail(xs))

\* "for x in P: if d_hat[x] < B: D.insert(x, d_hat[x])": the workspaces it can give
RECURSIVE InsertPivots(_, _, _, _)
InsertPivots(ds, m, B, xs) ==
    IF xs = <<>> THEN ds
    ELSE LET x == Head(xs)
         IN InsertPivots(IF m.d_hat[x] < B
                           THEN UNION {insert(d, x, m.d_hat[x]) : d \in ds}
                           ELSE ds,
                         m, B, Tail(xs))

\* B'_0 without lines 124-126: INF when no pivot is complete
BPrime0NoFirstPivot(m, P) ==
    LET done == {x \in P : m.complete[x]}
    IN IF done # {} THEN MinOf({m.d_hat[x] : x \in done}) ELSE INF

\* B'_0: the least d_hat of a complete pivot, else d_hat of the first pivot
BPrime0(m, P) ==
    LET done == {x \in P : m.complete[x]}
    IN IF done # {} THEN MinOf({m.d_hat[x] : x \in done})
       ELSE m.d_hat[MinOf(P)]

\* the final step returning the vertices of W only, without the collected U
FinalReturnOnlyW(f, m) ==
    LET B_prime == MinNat(f.B_prime_i, f.B)
    IN RetOf(f, B_prime, {x \in f.W : m.d_hat[x] < B_prime})

\* lines 175-185 of BMSSP: B' = min(B'_i, B), U plus the x of W with d_hat[x] < B'
FinalReturn(f, m) ==
    LET B_prime == MinNat(f.B_prime_i, f.B)
    IN RetOf(f, B_prime, f.U \cup {x \in f.W : m.d_hat[x] < B_prime})

\* the relaxation of one arc out of Ui that leaves the values of
\* [B'_i, Bi) out of the batch K
RelaxOneNoBatch(st, a, Bi, B, B_prime_i) ==
    LET u  == a[1]
        v  == a[2]
        nd == Add(st.m.d_hat[u], a[3])
        m2 == Relax(st.m, u, v, nd)
    IN IF nd <= st.m.d_hat[v]
         THEN IF nd >= Bi /\ nd < B
                THEN {[m |-> m2, D |-> d2, K |-> st.K] : d2 \in insert(st.D, v, nd)}
              ELSE {[m |-> m2, D |-> st.D, K |-> st.K]}
         ELSE {st}

\* the relaxation of one arc out of Ui, on a state [m, D, K]
RelaxOne(st, a, Bi, B, B_prime_i) ==
    LET u  == a[1]
        v  == a[2]
        nd == Add(st.m.d_hat[u], a[3])
        m2 == Relax(st.m, u, v, nd)
    IN IF nd <= st.m.d_hat[v]
         THEN IF nd >= Bi /\ nd < B
                THEN {[m |-> m2, D |-> d2, K |-> st.K] : d2 \in insert(st.D, v, nd)}
              ELSE IF nd >= B_prime_i /\ nd < Bi
                THEN {[m |-> m2, D |-> st.D, K |-> st.K \cup {<<v, nd>>}]}
              ELSE {[m |-> m2, D |-> st.D, K |-> st.K]}
         ELSE {st}

RECURSIVE RelaxUi(_, _, _, _, _)
RelaxUi(sts, arcs, Bi, B, B_prime_i) ==
    IF arcs = <<>> THEN sts
    ELSE RelaxUi(UNION {RelaxOne(st, Head(arcs), Bi, B, B_prime_i) : st \in sts},
                 Tail(arcs), Bi, B, B_prime_i)

\* "for x in Si: if B'_i <= d_hat[x] < Bi: K.emplace_back(x, d_hat[x])"
BackToK(m, Si, Bi, B_prime_i) ==
    {<<x, m.d_hat[x]>> : x \in {y \in Si : m.d_hat[y] >= B_prime_i /\ m.d_hat[y] < Bi}}

\* std::priority_queue<pair<double,int>, ..., greater<>>: a sequence kept in
\* ascending (distance, vertex) order, the top first
Before(a, b) == a[1] < b[1] \/ (a[1] = b[1] /\ a[2] <= b[2])
\* a stack in place of the priority queue: the last entry pushed is the top
HeapPushFront(H, e) == <<e>> \o H
HeapPush(H, e) ==
    LET lo == {i \in 1..Len(H) : Before(H[i], e)}
        j  == Cardinality(lo)
    IN SubSeq(H, 1, j) \o <<e>> \o SubSeq(H, j + 1, Len(H))

\* the relaxation in baseCase with the test "d_hat[u] + w < B" alone
RECURSIVE RelaxBaseUntested(_, _, _)
RelaxBaseUntested(st, arcs, B) ==
    IF arcs = <<>> THEN st
    ELSE LET u  == Head(arcs)[1]
             v  == Head(arcs)[2]
             nd == Add(st.m.d_hat[u], Head(arcs)[3])
         IN IF nd < B
              THEN RelaxBaseUntested([m |-> Relax(st.m, u, v, nd),
                                      H |-> HeapPush(st.H, <<nd, v>>)], Tail(arcs), B)
              ELSE RelaxBaseUntested(st, Tail(arcs), B)

\* the relaxation of the arcs of a popped vertex in baseCase, on [m, H]
RECURSIVE RelaxBase(_, _, _)
RelaxBase(st, arcs, B) ==
    IF arcs = <<>> THEN st
    ELSE LET u  == Head(arcs)[1]
             v  == Head(arcs)[2]
             nd == Add(st.m.d_hat[u], Head(arcs)[3])
         IN IF nd <= st.m.d_hat[v] /\ nd < B
              THEN RelaxBase([m |-> Relax(st.m, u, v, nd),
                              H |-> HeapPush(st.H, <<nd, v>>)], Tail(arcs), B)
              ELSE RelaxBase(st, Tail(arcs), B)

\* baseCase returning "{max_dist, U0}": the farthest vertex stays in U
BaseResultAll(f, m) ==
    IF Cardinality(f.U0) <= k THEN RetOf(f, f.B, f.U0)
    ELSE RetOf(f, MaxOf({0} \cup {m.d_hat[v] : v \in f.U0}), f.U0)

\* lines 227-243 of baseCase
BaseResult(f, m) ==
    IF Cardinality(f.U0) <= k THEN RetOf(f, f.B, f.U0)
    ELSE LET max_dist == MaxOf({0} \cup {m.d_hat[v] : v \in f.U0})
         IN RetOf(f, max_dist, {v \in f.U0 : m.d_hat[v] < max_dist})

(***************************************************************************)
(* A workspace under any sequence of insert, batchPrepend and pull         *)
(***************************************************************************)
\* the keys and the values of the workspace runs
Keys == {0, 1, 2}
Values == {0, 1}
\* the bound B handed to initialize: above every value of the run
WsB == MaxOf(Values) + 1

Batches == {items \in SUBSET (Keys \X Values) : Cardinality(items) <= MaxBatch}

NoOp == [kind |-> "initialize", key |-> NONE, value |-> 0, items |-> {},
         result |-> {}, sep |-> 0]

InitBDS ==
    /\ \E m \in 1..MaxM : bds = initialize(m, WsB)
    /\ bdsPrev = bds
    /\ lastOp = NoOp
    /\ nOps = 0
    /\ wsFault = "none"
    /\ inserted = {} /\ pulled = {}
    /\ adj = <<>> /\ source = 0
    /\ d_hat = <<>> /\ pred = <<>> /\ complete = <<>> /\ writes = NoWrites
    /\ stack = <<>> /\ ret = NoRet /\ status = "idle"

CanOp == nOps < MaxOps /\ wsFault = "none"

DoInsert ==
    /\ CanOp
    /\ \E key \in Keys, value \in Values :
         /\ bds' \in insert(bds, key, value)
         /\ lastOp' = [NoOp EXCEPT !.kind = "insert", !.key = key, !.value = value]
         /\ inserted' = inserted \cup {key}
    /\ bdsPrev' = bds
    /\ nOps' = nOps + 1
    /\ UNCHANGED <<wsFault, pulled, ssspVars>>

DoBatchPrepend ==
    /\ CanOp
    /\ \E items \in Batches :
         \E o \in batchPrepend(bds, items) :
            /\ bds' = o.ws
            /\ wsFault' = o.fault
            /\ lastOp' = [NoOp EXCEPT !.kind = "batchPrepend", !.items = items]
            /\ inserted' = inserted \cup KeysOf(items)
    /\ bdsPrev' = bds
    /\ nOps' = nOps + 1
    /\ UNCHANGED <<pulled, ssspVars>>

DoPull ==
    /\ CanOp
    /\ \E o \in pull(bds) :
         /\ bds' = o.ws
         /\ lastOp' = [NoOp EXCEPT !.kind = "pull", !.result = o.result, !.sep = o.sep]
         /\ pulled' = pulled \cup o.result
    /\ bdsPrev' = bds
    /\ nOps' = nOps + 1
    /\ UNCHANGED <<wsFault, inserted, ssspVars>>

NextBDS == DoInsert \/ DoBatchPrepend \/ DoPull

SpecBDS == InitBDS /\ [][NextBDS]_vars

\* a bound B that some values handed to insert exceed
LowB == MinOf(Values)

\* the same runs on a workspace initialized with the lower bound
InitBDSLow ==
    /\ \E m \in 1..MaxM : bds = initialize(m, LowB)
    /\ bdsPrev = bds
    /\ lastOp = NoOp
    /\ nOps = 0
    /\ wsFault = "none"
    /\ inserted = {} /\ pulled = {}
    /\ adj = <<>> /\ source = 0
    /\ d_hat = <<>> /\ pred = <<>> /\ complete = <<>> /\ writes = NoWrites
    /\ stack = <<>> /\ ret = NoRet /\ status = "idle"

SpecBDSLow == InitBDSLow /\ [][NextBDS]_vars

(***************************************************************************)
(* One solve: the graph and the source are the inputs                      *)
(***************************************************************************)
\* adj[u] of a graph given by its arc set and weights, targets ascending
AdjOf(arcs, wt, u) ==
    LET vs == Ascending({a[2] : a \in {b \in arcs : b[1] = u}})
    IN [i \in 1..Len(vs) |-> <<vs[i], wt[<<u, vs[i]>>]>>]

Init ==
    /\ \E nv \in 1..MaxN :
         \E arcs \in SUBSET ((0..(nv - 1)) \X (0..(nv - 1))) :
            /\ Cardinality(arcs) <= MaxArcs
            /\ \E wt \in [arcs -> 0..MaxW] :
                  adj = [u \in 0..(nv - 1) |-> AdjOf(arcs, wt, u)]
            /\ source \in 0..(nv - 1)
    /\ d_hat = <<>> /\ pred = <<>> /\ complete = <<>> /\ writes = NoWrites
    /\ stack = <<>> /\ ret = NoRet /\ status = "ready"
    /\ bds = NoD /\ bdsPrev = NoD /\ lastOp = NoOp /\ nOps = 0
    /\ wsFault = "none" /\ inserted = {} /\ pulled = {}

SetMem(m) ==
    /\ d_hat' = m.d_hat
    /\ pred' = m.pred
    /\ complete' = m.complete
    /\ writes' = m.writes

Return(r) ==
    /\ stack' = SubSeq(stack, 1, Len(stack) - 1)
    /\ ret' = r

SetTop(f) == stack' = [stack EXCEPT ![Len(stack)] = f]

\* solve, lines 57-77: initialise, relax the source, call BMSSP(max_level, INF, {source})
SolveCall ==
    /\ status = "ready"
    /\ SetMem(solve(source))
    /\ stack' = <<Frame(max_level, INF, {source})>>
    /\ status' = "running"
    /\ UNCHANGED <<adj, source, ret, bdsVars>>

\* BMSSP, lines 95-131: findPivots, the workspace and its pivots, B'_0
BMSSPEnter ==
    /\ Running /\ top.level > 0 /\ top.pc = "start"
    /\ LET fp == findPivots(Mem, top.B, top.S)
       IN /\ SetMem(fp.m)
          /\ IF fp.fault # "none"
               THEN status' = fp.fault /\ UNCHANGED <<stack, ret>>
             ELSE IF fp.P = {}
               THEN Return(RetOf([top EXCEPT !.W = fp.W], top.B, fp.W)) /\ UNCHANGED status
             ELSE /\ \E d \in InsertPivots({initialize(BlockSizeOf(top.level), top.B)},
                                           fp.m, top.B, Ascending(fp.P)) :
                        SetTop([top EXCEPT !.P = fp.P, !.W = fp.W, !.D = d,
                                           !.U = {}, !.B_prime_i = BPrime0(fp.m, fp.P),
                                           !.pc = "loop"])
                  /\ UNCHANGED <<ret, status>>
    /\ UNCHANGED <<adj, source, bdsVars>>

LoopGoesOn(f) == Cardinality(f.U) < SizeLimitOf(f.level) /\ ~empty(f.D)

\* BMSSP, lines 134-142: pull (Si, Bi) and call BMSSP(level - 1, Bi, Si)
BMSSPPull ==
    /\ Running /\ top.level > 0 /\ top.pc = "loop" /\ LoopGoesOn(top)
    /\ \E o \in pull(top.D) :
         IF o.result = {}
           THEN Return(FinalReturn(top, Mem))
           ELSE /\ stack' = [stack EXCEPT ![Len(stack)] =
                                [top EXCEPT !.D = o.ws, !.Si = o.result,
                                            !.Bi = o.sep, !.pc = "await"]]
                             \o <<Frame(top.level - 1, o.sep, o.result)>>
                /\ UNCHANGED ret
    /\ UNCHANGED <<adj, source, d_hat, pred, complete, writes, status, bdsVars>>

\* BMSSP, lines 143-172: take (B'_i, Ui), relax the arcs out of Ui, batchPrepend
BMSSPResume ==
    /\ Running /\ top.level > 0 /\ top.pc = "await"
    /\ \E st \in RelaxUi({[m |-> Mem, D |-> top.D, K |-> {}]},
                         ArcList(Ascending(ret.U)), top.Bi, top.B, ret.B_prime) :
         \E o \in batchPrepend(st.D, st.K \cup BackToK(st.m, top.Si, top.Bi, ret.B_prime)) :
            /\ SetMem(st.m)
            /\ SetTop([top EXCEPT !.B_prime_i = ret.B_prime, !.U = @ \cup ret.U,
                                  !.D = o.ws, !.pc = "loop"])
            /\ status' = IF o.fault # "none" THEN o.fault
                         ELSE IF Len(o.ws.D0) > MaxD0 THEN "cut"
                         ELSE status
    /\ UNCHANGED <<adj, source, ret, bdsVars>>

\* BMSSP, lines 134 and 175-185: the loop ends, return (B', U)
BMSSPReturn ==
    /\ Running /\ top.level > 0 /\ top.pc = "loop" /\ ~LoopGoesOn(top)
    /\ Return(FinalReturn(top, Mem))
    /\ UNCHANGED <<adj, source, d_hat, pred, complete, writes, status, bdsVars>>

\* baseCase, lines 190-204
BaseEnter ==
    /\ Running /\ top.level = 0 /\ top.pc = "start"
    /\ IF top.S = {}
         THEN Return(RetOf(top, top.B, {}))
         ELSE LET x == MinOf(top.S)
              IN /\ SetTop([top EXCEPT !.U0 = {x}, !.H = <<<<d_hat[x], x>>>>,
                                       !.pc = "heap"])
                 /\ UNCHANGED ret
    /\ UNCHANGED <<adj, source, d_hat, pred, complete, writes, status, bdsVars>>

\* the heap loop going on until k + 2 vertices are settled
HeapGoesOnLonger(f) == f.H # <<>> /\ Cardinality(f.U0) < k + 2

HeapGoesOn(f) == f.H # <<>> /\ Cardinality(f.U0) < k + 1

\* the heap loop without "complete[u] = true"
BasePopUnmarked ==
    /\ Running /\ top.level = 0 /\ top.pc = "heap" /\ HeapGoesOn(top)
    /\ LET dist == Head(top.H)[1]
           u    == Head(top.H)[2]
       IN IF dist > d_hat[u]
            THEN /\ SetTop([top EXCEPT !.H = Tail(@)])
                 /\ UNCHANGED <<d_hat, pred, complete, writes, status>>
            ELSE LET st == RelaxBase([m |-> Mem, H |-> Tail(top.H)],
                                     ArcList(<<u>>), top.B)
                 IN /\ SetMem(st.m)
                    /\ SetTop([top EXCEPT !.U0 = @ \cup {u}, !.H = st.H])
                    /\ status' = IF Len(st.H) > MaxHeap THEN "cut" ELSE status
    /\ UNCHANGED <<adj, source, ret, bdsVars>>

\* baseCase, lines 206-225: one iteration of the heap loop
BasePop ==
    /\ Running /\ top.level = 0 /\ top.pc = "heap" /\ HeapGoesOn(top)
    /\ LET dist == Head(top.H)[1]
           u    == Head(top.H)[2]
       IN IF dist > d_hat[u]
            THEN /\ SetTop([top EXCEPT !.H = Tail(@)])
                 /\ UNCHANGED <<d_hat, pred, complete, writes, status>>
            ELSE LET st == RelaxBase([m |-> [Mem EXCEPT !.complete[u] = TRUE],
                                      H |-> Tail(top.H)],
                                     ArcList(<<u>>), top.B)
                 IN /\ SetMem(st.m)
                    /\ SetTop([top EXCEPT !.U0 = @ \cup {u}, !.H = st.H])
                    /\ status' = IF Len(st.H) > MaxHeap THEN "cut" ELSE status
    /\ UNCHANGED <<adj, source, ret, bdsVars>>

\* baseCase, lines 227-243
BaseReturn ==
    /\ Running /\ top.level = 0 /\ top.pc = "heap" /\ ~HeapGoesOn(top)
    /\ Return(BaseResult(top, Mem))
    /\ UNCHANGED <<adj, source, d_hat, pred, complete, writes, status, bdsVars>>

\* solve, lines 79-83: the result arrays are d_hat and pred
SolveReturn ==
    /\ status = "running" /\ stack = <<>>
    /\ status' = "done"
    /\ UNCHANGED <<adj, source, d_hat, pred, complete, writes, stack, ret, bdsVars>>

Next ==
    \/ SolveCall
    \/ BMSSPEnter
    \/ BMSSPPull
    \/ BMSSPResume
    \/ BMSSPReturn
    \/ BaseEnter
    \/ BasePop
    \/ BaseReturn
    \/ SolveReturn

Spec == Init /\ [][Next]_vars

\* the chain 0 -> 1 -> ... -> nv-1: long enough for a level-1 activation
\* to reach its size limit
MaxChain == 9
ChainWeights == {0, 1}
ChainArcs(nv) == {<<i, i + 1>> : i \in 0..(nv - 2)}

InitChain ==
    /\ \E nv \in 2..MaxChain :
         \E wt \in [ChainArcs(nv) -> ChainWeights] :
            adj = [u \in 0..(nv - 1) |-> AdjOf(ChainArcs(nv), wt, u)]
    /\ source \in {0, 1}
    /\ d_hat = <<>> /\ pred = <<>> /\ complete = <<>> /\ writes = NoWrites
    /\ stack = <<>> /\ ret = NoRet /\ status = "ready"
    /\ bds = NoD /\ bdsPrev = NoD /\ lastOp = NoOp /\ nOps = 0
    /\ wsFault = "none" /\ inserted = {} /\ pulled = {}

SpecChain == InitChain /\ [][Next]_vars

\* a chain with one more arc: a second path to a vertex, or a cycle
MaxChord == 5
ChordWeights == {0, 1, 2}

InitChord ==
    /\ \E nv \in 3..MaxChord :
         \E c \in ((0..(nv - 1)) \X (0..(nv - 1))) \ ChainArcs(nv) :
            /\ c[1] # c[2]
            /\ \E wt \in [ChainArcs(nv) \cup {c} -> ChordWeights] :
                  adj = [u \in 0..(nv - 1) |-> AdjOf(ChainArcs(nv) \cup {c}, wt, u)]
    /\ source = 0
    /\ d_hat = <<>> /\ pred = <<>> /\ complete = <<>> /\ writes = NoWrites
    /\ stack = <<>> /\ ret = NoRet /\ status = "ready"
    /\ bds = NoD /\ bdsPrev = NoD /\ lastOp = NoOp /\ nOps = 0
    /\ wsFault = "none" /\ inserted = {} /\ pulled = {}

SpecChord == InitChord /\ [][Next]_vars

(***************************************************************************)
(* Claims about solve                                                      *)
(***************************************************************************)
\* the arcs <<u, v, w>> of the graph
Arcs == UNION {{<<u, adj[u][i][1], adj[u][i][2]>> : i \in 1..Len(adj[u])} : u \in V}

\* the reference distances: SimpleDijkstra::solve relaxes an arc while
\* "new_dist < distances[v]"; what it returns is the fixed point of that
\* relaxation, which n rounds over all the arcs reach
ShortestDist ==
    LET Step(f) == [v \in V |->
                      MinOf({f[v]} \cup {Add(f[a[1]], a[3]) : a \in {b \in Arcs : b[2] = v}})]
        F[i \in 0..n] == IF i = 0 THEN [v \in V |-> IF v = source THEN 0 ELSE INF]
                         ELSE Step(F[i - 1])
    IN F[n]

Reachable(v) == ShortestDist[v] < INF

\* the solve has ended: it returned, or it stopped without returning
Ended == status \in {"done", "sigfpe", "hang", "stack_overflow"}

\* C1: solve returns, and for every vertex v reachable from the source the
\* returned distances[v] is the true shortest-path distance
C1_DistancesAreShortest ==
    Ended => /\ status = "done"
             /\ \A v \in V : Reachable(v) => d_hat[v] = ShortestDist[v]

\* C2: solve terminates by returning a result, on every graph with
\* non-negative weights: no solve ends in a trap, in a loop that never
\* advances or in an unbounded recursion
C2_SolveReturns ==
    status \notin {"sigfpe", "hang", "stack_overflow"}

\* C3: after solve, a vertex not reachable from the source has distance
\* +infinity and no predecessor
C3_UnreachableUntouched ==
    status = "done" =>
       \A v \in V : ~Reachable(v) => d_hat[v] = INF /\ pred[v] = NONE

\* C4: after solve, every vertex i # source of finite distance has a
\* predecessor u with an arc u -> i such that distances[u] + w = distances[i]
C4_PredecessorIsTight ==
    status = "done" =>
       \A i \in V : (d_hat[i] < INF /\ i # source) =>
          \E a \in Arcs : /\ a[1] = pred[i] /\ a[2] = i
                          /\ Add(d_hat[a[1]], a[3]) = d_hat[i]

\* the vertex reached from i by following predecessors j times (NONE once the
\* chain has left the graph)
RECURSIVE PredChain(_, _)
PredChain(i, j) ==
    IF j = 0 THEN i
    ELSE LET p == PredChain(i, j - 1)
         IN IF p \in V THEN pred[p] ELSE NONE

\* C5: after solve, following predecessors from a vertex of finite distance
\* reaches the source in finitely many steps, distances strictly decreasing
\* at every step
C5_ChainStrictlyDecreases ==
    status = "done" =>
       \A i \in V : d_hat[i] < INF =>
          \E len \in 0..n :
             /\ PredChain(i, len) = source
             /\ \A j \in 0..(len - 1) :
                   /\ PredChain(i, j + 1) \in V
                   /\ d_hat[PredChain(i, j + 1)] < d_hat[PredChain(i, j)]

\* the same with distances never increasing along the chain
C5_ChainNeverIncreases ==
    status = "done" =>
       \A i \in V : d_hat[i] < INF =>
          \E len \in 0..n :
             /\ PredChain(i, len) = source
             /\ \A j \in 0..(len - 1) :
                   /\ PredChain(i, j + 1) \in V
                   /\ d_hat[PredChain(i, j + 1)] <= d_hat[PredChain(i, j)]

\* C6: after solve, the source has no predecessor and distance 0
C6_SourceIsRoot ==
    status = "done" => pred[source] = NONE /\ d_hat[source] = 0

\* a solve returned on a graph where some vertex cannot be reached and some
\* other vertex can
C3_Witness ==
    /\ status = "done"
    /\ \E v \in V : ~Reachable(v)
    /\ \E v \in V : v # source /\ Reachable(v)

\* a solve returned with a vertex two arcs away from the source
C4_Witness ==
    /\ status = "done"
    /\ \E i \in V : /\ i # source /\ d_hat[i] < INF
                    /\ pred[i] \in V /\ pred[i] # source

\* a solve returned with a chain of two steps, one of them across a
\* zero-weight arc (equal distances) and one across a positive arc
C5_Witness ==
    /\ status = "done"
    /\ \E i \in V : /\ d_hat[i] < INF /\ pred[i] \in V /\ pred[i] # source
                    /\ pred[pred[i]] = source
                    /\ \/ d_hat[pred[i]] = d_hat[i] /\ d_hat[pred[i]] > 0
                       \/ d_hat[pred[i]] < d_hat[i] /\ d_hat[pred[i]] = 0

\* a solve returned on a graph with an arc that enters the source from a
\* vertex reachable from it
C6_Witness ==
    /\ status = "done"
    /\ \E a \in Arcs : a[2] = source /\ a[1] # source /\ Reachable(a[1])

(***************************************************************************)
(* Claims about pull                                                       *)
(***************************************************************************)
IsPull == lastOp.kind = "pull" /\ wsFault = "none"
\* the value a key had in the workspace the pull was called on
StoredBefore(key) == bdsPrev.key_values[key]

\* C7: every key a pull returns had a stored value strictly below the
\* separator the pull returns
C7_ReturnedBelowSeparator ==
    IsPull => \A key \in lastOp.result : StoredBefore(key) < lastOp.sep

\* C8: after a pull either the workspace is empty and the separator is the
\* configured B, or every key still present has a value >= the separator
C8_RemainingAtLeastSeparator ==
    IsPull =>
       \/ size(bds) = 0 /\ lastOp.sep = bds.B
       \/ \A key \in DOMAIN bds.key_values : bds.key_values[key] >= lastOp.sep

\* C9: no key left in the workspace has a value strictly smaller than the
\* value of a key the pull returned
C9_PullReturnsSmallest ==
    IsPull => \A key \in lastOp.result : \A left \in DOMAIN bds.key_values :
                 ~(bds.key_values[left] < StoredBefore(key))

\* C10: a pull returns exactly min(M, size()) keys, none only when the
\* workspace was empty (and then the separator is B), and size() drops by
\* the number of keys returned
C10_PullCount ==
    IsPull =>
       /\ Cardinality(lastOp.result) = MinNat(bdsPrev.M, size(bdsPrev))
       /\ size(bds) = size(bdsPrev) - Cardinality(lastOp.result)
       /\ lastOp.result \subseteq DOMAIN bdsPrev.key_values
       /\ lastOp.result = {} => (size(bdsPrev) = 0 /\ lastOp.sep = bdsPrev.B)

\* a pull of a workspace of capacity M >= 2 that held more than M keys, some
\* of them batch-prepended, returned M keys and left keys behind
C10_Witness ==
    /\ IsPull
    /\ bdsPrev.M >= 2
    /\ Cardinality(lastOp.result) = bdsPrev.M
    /\ size(bds) > 0
    /\ Len(bdsPrev.D0) > 0

(***************************************************************************)
(* Claims about the workspace as a whole                                   *)
(***************************************************************************)
\* C11: every workspace operation completes, for every capacity M >= 1 and
\* every argument, and a batchPrepend leaves each key of its batch present
C11_OperationsComplete ==
    /\ wsFault = "none"
    /\ lastOp.kind = "batchPrepend" =>
          KeysOf(lastOp.items) \subseteq DOMAIN bds.key_values

\* C12: size() is the number of distinct keys held in the blocks; an insert
\* or a batchPrepend raises it by the number of keys that were not present
\* (by nothing for a key already present), a pull lowers it by the number
\* of keys returned
C12_SizeCountsHeldKeys ==
    wsFault = "none" =>
       /\ size(bds) = Cardinality(KeysOf(AllElements(bds)))
       /\ lastOp.kind = "insert" =>
             size(bds) = size(bdsPrev)
                         + (IF lastOp.key \in DOMAIN bdsPrev.key_values THEN 0 ELSE 1)
       /\ lastOp.kind = "batchPrepend" =>
             size(bds) = size(bdsPrev)
                         + Cardinality(KeysOf(lastOp.items) \ DOMAIN bdsPrev.key_values)
       /\ lastOp.kind = "pull" =>
             size(bds) = size(bdsPrev) - Cardinality(lastOp.result)

\* a batchPrepend that lowered the value of a key already present and
\* brought a new key
C12_Witness ==
    /\ wsFault = "none"
    /\ lastOp.kind = "batchPrepend"
    /\ \E e \in lastOp.items :
          /\ Key(e) \in DOMAIN bdsPrev.key_values
          /\ Val(e) < bdsPrev.key_values[Key(e)]
    /\ \E e \in lastOp.items : Key(e) \notin DOMAIN bdsPrev.key_values
    /\ size(bds) = 2

\* the blocks of a workspace, named <<list, index>>
BlockIds(ws) ==
    ({"D0"} \X (1..Len(ws.D0))) \cup ({"D1"} \X (1..Len(ws.D1)))
BlockAt(ws, b) == IF b[1] = "D0" THEN ws.D0[b[2]] ELSE ws.D1[b[2]]

\* the occurrences of a key in the blocks: <<block, element>>
Occurrences(ws, key) ==
    {o \in BlockIds(ws) \X AllElements(ws) :
        o[2] \in BlockAt(ws, o[1]).elements /\ Key(o[2]) = key}

IsReinsert ==
    /\ lastOp.kind = "insert"
    /\ lastOp.key \in DOMAIN bdsPrev.key_values

\* C13: insert(key, value) of a key present with value old leaves the
\* workspace unchanged if value >= old; if value < old the stored value
\* becomes value and the key occurs exactly once; getValue(key) is
\* min(old, value) afterwards
C13_ReinsertKeepsMinimum ==
    IsReinsert =>
       LET old == bdsPrev.key_values[lastOp.key]
       IN /\ getValue(bds, lastOp.key) = MinNat(old, lastOp.value)
          /\ lastOp.value >= old => bds = bdsPrev
          /\ lastOp.value < old =>
                /\ Cardinality(Occurrences(bds, lastOp.key)) = 1
                /\ \A o \in Occurrences(bds, lastOp.key) : Val(o[2]) = lastOp.value

\* an insert lowered the value of a key that a batchPrepend had brought
C13_Witness ==
    /\ IsReinsert
    /\ lastOp.value < bdsPrev.key_values[lastOp.key]
    /\ FirstBlockWith(bdsPrev.D0, lastOp.key) # 0

\* C14: the keys returned by all the pulls together with the keys still
\* present are exactly the keys ever handed to insert or batchPrepend
C14_KeyConservation ==
    wsFault = "none" => pulled \cup DOMAIN bds.key_values = inserted

\* a key that a pull returned is present again, next to a key no pull has
\* returned
C14_Witness ==
    /\ wsFault = "none"
    /\ pulled \cap DOMAIN bds.key_values # {}
    /\ DOMAIN bds.key_values \ pulled # {}

IsBatchPrepend == lastOp.kind = "batchPrepend" /\ wsFault = "none"

\* the values a batch gives for a key
GivenFor(items, key) == {Val(e) : e \in {x \in items : Key(x) = key}}

\* where the block <<list, index>> of the workspace before a batchPrepend
\* is afterwards: the new blocks are put in front of D0
ShiftedBlock(b) ==
    IF b[1] = "D0" THEN <<"D0", b[2] + Len(bds.D0) - Len(bdsPrev.D0)>> ELSE b

\* C15: after batchPrepend(items) every key of items has the minimum of the
\* values given for it and of the value it had before; a key that was
\* present with a smaller-or-equal value keeps its value and its block
C15_BatchKeepsMinimum ==
    IsBatchPrepend =>
       \A key \in KeysOf(lastOp.items) :
          LET given == MinOf(GivenFor(lastOp.items, key))
              was   == key \in DOMAIN bdsPrev.key_values
          IN /\ getValue(bds, key) =
                   (IF was THEN MinNat(given, bdsPrev.key_values[key]) ELSE given)
             /\ (was /\ bdsPrev.key_values[key] <= given) =>
                   /\ bds.key_values[key] = bdsPrev.key_values[key]
                   /\ Occurrences(bds, key) =
                         {<<ShiftedBlock(o[1]), o[2]>> : o \in Occurrences(bdsPrev, key)}

\* a batchPrepend gave two values for one key and a value for a key that
\* was present with a smaller-or-equal value
C15_Witness ==
    /\ IsBatchPrepend
    /\ \E key \in KeysOf(lastOp.items) : Cardinality(GivenFor(lastOp.items, key)) = 2
    /\ \E key \in KeysOf(lastOp.items) :
          /\ key \in DOMAIN bdsPrev.key_values
          /\ bdsPrev.key_values[key] <= MinOf(GivenFor(lastOp.items, key))
    /\ Len(bds.D0) > Len(bdsPrev.D0)


\* C16: the blocks and the key index agree: every element of a D0 or D1
\* block is in key_values with the same value, and every key of key_values
\* occurs in exactly one block, exactly once
C16_BlocksAgreeWithIndex ==
    wsFault = "none" =>
       /\ \A e \in AllElements(bds) :
             /\ Key(e) \in DOMAIN bds.key_values
             /\ bds.key_values[Key(e)] = Val(e)
       /\ \A key \in DOMAIN bds.key_values :
             Cardinality(Occurrences(bds, key)) = 1

\* a key was moved by an insert of a smaller value while both block lists
\* hold elements
C16_Witness ==
    /\ wsFault = "none"
    /\ IsReinsert
    /\ lastOp.value < bdsPrev.key_values[lastOp.key]
    /\ \E i \in 1..Len(bds.D0) : bds.D0[i].elements # {}
    /\ \E i \in 1..Len(bds.D1) : bds.D1[i].elements # {}
    /\ Cardinality(DOMAIN bds.key_values) = 3


\* C17: the D0 blocks are in non-decreasing order of value from front to
\* back: every element of an earlier D0 block has a value less than or
\* equal to every element of a later D0 block
C17_D0BlocksOrdered ==
    wsFault = "none" =>
       \A i \in 1..Len(bds.D0) : \A j \in 1..Len(bds.D0) :
          i < j => \A a \in bds.D0[i].elements : \A b \in bds.D0[j].elements :
                      Val(a) <= Val(b)


\* C18: every element of every D1 block has a value less than or equal to
\* the upper bound of its block, after a split and for every value that
\* insert is given
C18_D1WithinUpperBound ==
    wsFault = "none" =>
       \A i \in 1..Len(bds.D1) : \A e \in bds.D1[i].elements :
          Val(e) <= bds.D1[i].upper_bound


(***************************************************************************)
(* Claims about what a BMSSP activation returns                            *)
(***************************************************************************)
\* an activation has just returned: its caller has the pair (B', U) in hand
\* and has not yet relaxed an arc (line 143 of BMSSP, line 77 of solve)
JustReturned ==
    /\ status \in {"running", "done"}
    /\ ret # NoRet
    /\ (stack = <<>> \/ top.pc = "await")

\* C19: when an activation called with (B, S) returns (B', U), B' <= B and
\* every vertex of U has d_hat below B' at that moment
C19_ReturnedBelowBound ==
    JustReturned =>
       /\ ret.B_prime <= ret.B
       /\ \A v \in ret.U : d_hat[v] < ret.B_prime


\* a BMSSP activation above the base case returned two or more vertices
\* with a bound below the one it was given
C19_Witness ==
    /\ JustReturned
    /\ ret.level > 0
    /\ Cardinality(ret.U) >= 2
    /\ ret.B_prime < ret.B

\* C20: when an activation returns (B', U), every vertex of U has its final
\* value: d_hat is the true shortest-path distance from the source, at the
\* return and in every later state
C20_ReturnedAreFinal ==
    ret # NoRet => \A v \in ret.U : d_hat[v] = ShortestDist[v]

\* an activation returned a vertex that a longer path reaches as well, and
\* its caller has since relaxed the arcs out of the returned set
C20_Witness ==
    /\ ret # NoRet
    /\ \E v \in ret.U : \E a \in Arcs :
          /\ a[2] = v
          /\ ShortestDist[a[1]] < INF
          /\ Add(ShortestDist[a[1]], a[3]) > ShortestDist[v]
    /\ stack # <<>> /\ top.pc = "loop" /\ top.level = ret.level + 1
    /\ ret.U \subseteq top.U


\* C21: when an activation returns (B', U), every vertex of U is marked
\* complete, the vertices of W added in the final step included
C21_ReturnedAreComplete ==
    JustReturned => \A v \in ret.U : complete[v]


\* a BMSSP activation whose findPivots left by the early exit, marking
\* nothing, returned vertices of its reach set W beyond S
C21_Witness ==
    /\ JustReturned
    /\ ret.level > 0
    /\ Cardinality(ret.W) > k * Cardinality(ret.S)
    /\ (ret.W \cap ret.U) \ ret.S # {}


\* the call BMSSP(max_level, INF, {source}) of solve has returned
TopReturned == JustReturned /\ stack = <<>> /\ ret.level = max_level

\* C22: when the top-level call returns (B', U), every vertex whose true
\* shortest-path distance from the source is below B' is in U
C22_TopLevelCoversBelowBound ==
    TopReturned => \A v \in V : ShortestDist[v] < ret.B_prime => v \in ret.U


\* the top-level call returned at least four vertices and left a vertex the
\* source does not reach outside U
C22_Witness ==
    /\ TopReturned
    /\ Cardinality(ret.U) >= 4
    /\ \E v \in V : ~Reachable(v) /\ v \notin ret.U


(***************************************************************************)
(* Claims about the shared arrays                                          *)
(***************************************************************************)
\* C23: d_hat is monotone non-increasing over a solve: every write to
\* d_hat[v], by solve, findPivots, baseCase or the relaxation step of BMSSP,
\* stores a value less than or equal to the one it replaces
C23_WritesNeverRaise ==
    ~writes.raised

\* a solve returned after a write replaced a finite estimate by a smaller one
C23_Witness ==
    status = "done" /\ writes.lowered


(***************************************************************************)
(* Claims about findPivots                                                 *)
(***************************************************************************)
\* the calls findPivots(B, S) that have returned and whose (P, W) is still
\* held: by the activations on the stack, and by the one that returned last
Pivoted ==
    {[S |-> stack[i].S, P |-> stack[i].P, W |-> stack[i].W] :
        i \in {j \in 1..Len(stack) : stack[j].level > 0 /\ stack[j].pc # "start"}}
    \cup (IF ret.level > 0
            THEN {[S |-> ret.S, P |-> ret.P, W |-> ret.W]} ELSE {})

\* C24: findPivots(B, S) returns (P, W) with P a subset of S and S a subset
\* of W, and P is non-empty whenever S is
C24_PivotsWithinReach ==
    \A c \in Pivoted :
       /\ c.P \subseteq c.S
       /\ c.S \subseteq c.W
       /\ c.S # {} => c.P # {}

\* findPivots found no subtree of k vertices: the reach set is S alone, and
\* the pivot is the first vertex of S
C24_Witness ==
    \E c \in Pivoted : c.S # {} /\ c.W = c.S /\ c.P = {MinOf(c.S)}


\* C25: findPivots(B, S) leaves complete[v] = true for every vertex v of the
\* W it returns, on the early exit as after the k rounds (complete is never
\* reset, so a vertex found unmarked later was unmarked at the return)
C25_ReachSetMarkedComplete ==
    \A c \in Pivoted : \A v \in c.W : complete[v]


\* C26: at every point of a solve the predecessor relation is a forest:
\* following pred from a vertex never returns to that vertex, so that the
\* child lists findPivots builds hold no cycle
C26_PredIsForest ==
    status # "ready" =>
       \A v \in V : \A j \in 1..n : PredChain(v, j) # v


\* the state right after findPivots returned its pivots to a BMSSP
\* activation that has not pulled yet: the memory is as findPivots left it
JustPivoted ==
    Running /\ top.level > 0 /\ top.pc = "loop" /\ top.Si = {}

C28_BaseCaseResult ==
    (/\ JustReturned /\ ret.level = 0
     /\ Cardinality(ret.S) = 1
     /\ \A x \in ret.S : d_hat[x] < ret.B)
       => /\ ret.B_prime <= ret.B
          /\ Cardinality(ret.U) <= k
          /\ IF Cardinality(ret.U0) <= k
               THEN ret.B_prime = ret.B /\ ret.U = ret.U0
               ELSE LET far == MaxOf({d_hat[v] : v \in ret.U0})
                    IN /\ Cardinality(ret.U0) = k + 1
                       /\ ret.B_prime = far
                       /\ ret.U = {v \in ret.U0 : d_hat[v] < far}

\* a base case that settled k + 1 vertices and returned k of them with
\* the distance of the farthest as B' below B
C28_Witness ==
    /\ JustReturned /\ ret.level = 0
    /\ Cardinality(ret.S) = 1 /\ \A x \in ret.S : d_hat[x] < ret.B
    /\ Cardinality(ret.U0) = k + 1
    /\ Cardinality(ret.U) = k
    /\ ret.B_prime < ret.B


\* the BMSSP activations at level > 0 that own a workspace
Active ==
    {stack[i] : i \in {j \in 1..Len(stack) :
                          stack[j].level > 0 /\ stack[j].pc # "start"}}

RECURSIVE WrittenBy(_, _)
WrittenBy(m, arcs) ==
    IF arcs = <<>> THEN {}
    ELSE LET u  == Head(arcs)[1]
             v  == Head(arcs)[2]
             nd == Add(m.d_hat[u], Head(arcs)[3])
         IN IF nd <= m.d_hat[v]
              THEN {<<v, nd>>} \cup WrittenBy(Relax(m, u, v, nd), Tail(arcs))
              ELSE WrittenBy(m, Tail(arcs))

\* C30: once a BMSSP activation at level > 0 has processed a pulled batch
\* (the relaxation out of U_i, then batchPrepend), every vertex whose d_hat
\* was written during that relaxation with a value in [B'_i, B) is a key of
\* the workspace, stored with at most the written value
C30_WrittenInRangeIsStored ==
    [][(/\ Running /\ top.level > 0 /\ top.pc = "await"
        /\ status' \in {"running", "cut"})
          => LET D == stack'[Len(stack)].D
             IN \A e \in WrittenBy(Mem, ArcList(Ascending(ret.U))) :
                   (Val(e) >= ret.B_prime /\ Val(e) < top.B)
                      => /\ Key(e) \in DOMAIN D.key_values
                         /\ D.key_values[Key(e)] <= Val(e)]_vars

\* a processed batch left in the workspace a vertex that the relaxation out
\* of U_i had just reached, stored with its distance
C30_Witness ==
    /\ Running /\ top.level > 0 /\ top.pc = "loop" /\ top.Si # {}
    /\ ret.level = top.level - 1 /\ ret.U # {}
    /\ \E v \in DOMAIN top.D.key_values :
          /\ pred[v] \in ret.U
          /\ top.D.key_values[v] = d_hat[v]
          /\ d_hat[v] >= ret.B_prime /\ d_hat[v] < top.B


\* C31: the complete flags are advisory. Their one read is the computation
\* of B'_0 from the pivots (lines 118-126); whatever values the flags hold
\* at that point, B'_0 is the value the run computed, so two runs that
\* differ only in the flags take the same steps and return the same arrays
C31_FlagsAreAdvisory ==
    JustPivoted =>
       \A flags \in [V -> BOOLEAN] :
          BPrime0([Mem EXCEPT !.complete = flags], top.P) = top.B_prime_i

\* B'_0 was computed in a nested activation while the flags of the
\* vertices its findPivots reached are not all set
C31_Witness ==
    /\ JustPivoted /\ top.level < max_level
    /\ \E x \in top.P : complete[x]
    /\ \E v \in top.W : ~complete[v]


\* the state at the moment an activation calls BMSSP(level - 1, Bi, Si) on
\* what it pulled: the callee is on top and has not started
JustCalled ==
    Running /\ Len(stack) >= 2 /\ top.pc = "start"

\* C32: when a BMSSP activation calls BMSSP(level - 1, Bi, Si) on the pulled
\* (Si, Bi), every vertex of Si has d_hat below Bi at the moment of the call
C32_PulledBelowSeparator ==
    JustCalled => \A x \in top.S : d_hat[x] < top.B

\* a call made on a pulled vertex other than the source, by an activation
\* that had already completed vertices
C32_Witness ==
    /\ JustCalled
    /\ stack[Len(stack) - 1].U # {}
    /\ top.S = stack[Len(stack) - 1].Si
    /\ \E x \in top.S : d_hat[x] > 0 /\ d_hat[x] < top.B


\* C33: baseCase called with S = {x} and d_hat[x] < B returns x in U, so an
\* iteration of the level-1 loop completes at least the vertex it pulled
\* and does not hand it back to the workspace
C33_BaseCaseReturnsItsSource ==
    (/\ JustReturned /\ ret.level = 0
     /\ Cardinality(ret.S) = 1
     /\ \A x \in ret.S : d_hat[x] < ret.B)
       => ret.S \subseteq ret.U


\* every arc of the graph has a strictly positive weight
PositiveWeights == \A a \in Arcs : a[3] > 0

\* C34: on a graph whose weights are all strictly positive, solve
\* terminates for every source: no run on such a graph ends in a trap, in
\* a loop that never advances or in an unbounded recursion
C34_TerminatesOnPositive ==
    PositiveWeights => status \notin {"sigfpe", "hang", "stack_overflow"}


\* C35: in every BMSSP activation, a vertex that is a key of the
\* activation's workspace is stored with its current d_hat: the workspace
\* holds no stale distance
C35_WorkspaceHoldsCurrentDistance ==
    \A f \in Active :
       \A v \in DOMAIN f.D.key_values : f.D.key_values[v] = d_hat[v]


\* a workspace holds, with its current distance, a vertex that the
\* relaxation out of the completed vertices reached after a recursive call
C35_Witness ==
    \E f \in Active :
       /\ f.Si # {} /\ f.U # {}
       /\ \E v \in DOMAIN f.D.key_values :
             /\ pred[v] \in f.U /\ v \notin f.U
             /\ f.D.key_values[v] = d_hat[v]
             /\ d_hat[v] > 0


\* the stored pairs of the keys other than those of the set keys: in the
\* key index and in the blocks
OtherPairs(ws, keys) ==
    [index  |-> {<<key, ws.key_values[key]>> : key \in DOMAIN ws.key_values \ keys},
     blocks |-> {e \in AllElements(ws) : Key(e) \notin keys}]

\* C36: pull changes nothing but the keys it returns, every other key is
\* still present with the same stored value; insert(key, value) leaves the
\* presence and the stored value of every other key unchanged
C36_OtherKeysUntouched ==
    /\ IsPull =>
          OtherPairs(bds, lastOp.result) = OtherPairs(bdsPrev, lastOp.result)
    /\ (lastOp.kind = "insert" /\ wsFault = "none") =>
          OtherPairs(bds, {lastOp.key}) = OtherPairs(bdsPrev, {lastOp.key})

\* an insert that split an overfull block holding other keys
C36_Witness ==
    /\ lastOp.kind = "insert" /\ wsFault = "none"
    /\ Len(bds.D1) > Len(bdsPrev.D1)
    /\ lastOp.key \in DOMAIN bdsPrev.key_values
    /\ Cardinality(DOMAIN bds.key_values) >= 3


\* C37: in every reachable state of the workspace, empty() is true exactly
\* when size() is 0: the test on the blocks and the count of the key index
\* agree
C37_EmptyIffSizeZero ==
    wsFault = "none" => (empty(bds) <=> size(bds) = 0)

\* a workspace that held keys in a D0 block and in a D1 block and was
\* pulled empty
C37_Witness ==
    /\ wsFault = "none" /\ IsPull
    /\ empty(bds) /\ size(bds) = 0
    /\ Len(bds.D0) > 0
    /\ \E i \in 1..Len(bdsPrev.D1) : bdsPrev.D1[i].elements # {}
    /\ Cardinality(pulled) >= 2


\* C38: the D1 blocks are ordered: their upper bounds are non-decreasing
\* from front to back, the last D1 block has upper bound B, and every
\* element of a D1 block has a value at or above the upper bound of the
\* block before it
C38_D1BlocksOrdered ==
    (wsFault = "none" /\ Len(bds.D1) > 0) =>
       /\ \A i \in 1..(Len(bds.D1) - 1) :
             bds.D1[i].upper_bound <= bds.D1[i + 1].upper_bound
       /\ bds.D1[Len(bds.D1)].upper_bound = bds.B
       /\ \A i \in 2..Len(bds.D1) :
             \A e \in bds.D1[i].elements : Val(e) >= bds.D1[i - 1].upper_bound


\* the last operation completed
Completed == lastOp.kind \in {"insert", "batchPrepend", "pull"} /\ wsFault = "none"

\* C39: after every completed insert, batchPrepend or pull no D0 or D1
\* block holds more than M elements: an insert that splits an overfull D1
\* block leaves two non-empty blocks of at most M elements in its place, and
\* batchPrepend creates no block larger than M
C39_BlocksWithinCapacity ==
    Completed =>
       /\ \A b \in BlockIds(bds) : Cardinality(BlockAt(bds, b).elements) <= bds.M
       /\ (lastOp.kind = "insert" /\ Len(bds.D1) > Len(bdsPrev.D1)) =>
             /\ Len(bds.D1) = Len(bdsPrev.D1) + 1
             /\ \E i \in 1..Len(bdsPrev.D1) :
                   /\ bds.D1[i].elements # {} /\ bds.D1[i + 1].elements # {}
                   /\ bds.D1[i].elements \cup bds.D1[i + 1].elements
                         = (bdsPrev.D1[i].elements
                              \ {e \in bdsPrev.D1[i].elements : Key(e) = lastOp.key})
                           \cup {<<lastOp.key, lastOp.value>>}
                   /\ Cardinality(bds.D1[i].elements \cup bds.D1[i + 1].elements)
                         = bds.M + 1

\* a batch larger than M was cut into several D0 blocks next to D1 blocks
\* that an insert had split
C39_Witness ==
    /\ Completed /\ lastOp.kind = "batchPrepend"
    /\ Len(bds.D0) >= 2
    /\ Len(bds.D1) >= 2
    /\ Cardinality(lastOp.items) > bds.M

====
